---- MODULE Spec2Model ----
(***************************************************************************)
(* Client-side session / routing / dashboard-fetch lifecycle of the ZODIC  *)
(* single page app.  Two versions of the App component exist in the        *)
(* repository: the "simple" one (frontend/src/App.js) and the "routed" one *)
(* (unnamed/part_000).  AuthProvider and Dashboard are identical in both.  *)
(*                                                                         *)
(* React is modelled as follows: every handler (an event handler or the    *)
(* continuation of an async function after an await) is one action that    *)
(* performs all its setState calls; the action Render is one React commit: *)
(* it evaluates the component functions on the current state, mounts or    *)
(* unmounts the Dashboard and runs the effects whose dependencies changed. *)
(* Strings that the code takes apart or builds are sequences of characters *)
(* (the URL fragment is a sequence of tokens).                             *)
(*                                                                         *)
(* Scheduling: a pending commit runs before the next handler (every        *)
(* handler is guarded by ~dirty), as React flushes scheduled renders and   *)
(* their passive effects before it handles the next event or update.       *)
(* Assigning window.location.href unloads the page: nothing runs after it. *)
(* A request in flight is state (authReqs, pendingLogout, pendingMut, the  *)
(* pc of a fetchData run); a request that has been answered leaves none.   *)
(* Response bodies are opaque: a user record is known by its role, a read  *)
(* body by being different from the useState initial value.                *)
(*                                                                         *)
(* Specifications: SpecLoad is a page load on any path and fragment, in    *)
(* either App, with the Dashboard's initial fetchData; Spec is the         *)
(* Dashboard in use (tabs, createBot, toggleBot) after a load of the       *)
(* routed App on /dashboard; SpecBots is an admin on the bots tab;         *)
(* SpecOverlap is the same with enough mutations for fetchData runs to     *)
(* overlap; SpecParse is a page load on fragments that hold the token in   *)
(* every position; SpecForm is the AuthForm of the routed App in use.  The *)
(* Fair... specifications add weak fairness of the React commit and of the *)
(* responses that the property at hand assumes to arrive.                  *)
(***************************************************************************)
EXTENDS Integers, Sequences, FiniteSets, TLC

\* ------------------------------------------------------------------ bounds
MaxRuns == 2        \* fetchData runs started in one page load
MaxLogouts == 1     \* logout requests in flight at a time

\* --------------------------------------------------------------- constants
Null == "null"
Users == {"admin-user", "client-user", "norole-user"}

\* user?.role
Role(u) ==
  IF u = "admin-user" THEN "admin"
  ELSE IF u = "client-user" THEN "client"
  ELSE "undefined"

Versions == {"simple", "routed"}
Paths == {"/", "/dashboard", "/login", "/signup", "/other"}

\* URL fragments the page can be loaded with (token sequences)
Fragments ==
  { <<>>,
    <<"#", "x">>,
    <<"#", "session_id=", "a">>,
    <<"#", "x", "&", "session_id=", "b", "&", "y">> }

\* URL fragments for the parsing of the token: plain, not the first
\* parameter, an empty value at the end and before '&', 'session_id=' a
\* second time before and after the next '&', and no token at all
ParseFragments ==
  { <<"#", "session_id=", "a">>,
    <<"#", "x", "&", "session_id=", "b", "&", "y">>,
    <<"#", "session_id=">>,
    <<"#", "session_id=", "&", "y">>,
    <<"#", "session_id=", "a", "session_id=", "b">>,
    <<"#", "session_id=", "a", "&", "session_id=", "b">>,
    <<"#", "x">> }

\* window.location.origin
Origin == <<"h", "t", "t", "p", ":", "/", "/", "z", ":", "3">>

DashboardSuffix == <<"/", "d", "a", "s", "h", "b", "o", "a", "r", "d">>

AuthBase ==
  <<"h", "t", "t", "p", "s", ":", "/", "/", "a", "u", "t", "h", ".",
    "e", "m", "e", "r", "g", "e", "n", "t", "a", "g", "e", "n", "t", ".",
    "c", "o", "m", "/", "?", "r", "e", "d", "i", "r", "e", "c", "t", "=">>

NoNav == <<>>

\* AuthForm, Back to Home: window.location.href = '/'
HomeUrl == <<"/">>

\* AuthForm: the names of its inputs, and what can be typed into one
Fields == {"email", "password", "confirmPassword", "name"}
Texts == {"", "typed"}

\* AuthForm: the useState initial value of formData
FormDefault == [f \in Fields |-> ""]

\* ---------------------------------------------------------- pure functions
\* String.prototype.includes for a one-token needle
Includes(s, tok) == \E i \in 1..Len(s) : s[i] = tok

\* index of the first occurrence of tok in s, 0 when there is none
RECURSIVE IndexOf(_, _, _)
IndexOf(s, tok, i) ==
  IF i > Len(s) THEN 0
  ELSE IF s[i] = tok THEN i
  ELSE IndexOf(s, tok, i + 1)

\* String.prototype.split for a one-token separator
RECURSIVE Split(_, _)
Split(s, sep) ==
  LET i == IndexOf(s, sep, 1) IN
  IF i = 0 THEN <<s>>
  ELSE <<SubSeq(s, 1, i - 1)>> \o Split(SubSeq(s, i + 1, Len(s)), sep)

\* urlFragment.split('session_id=')[1].split('&')[0]   (JS indices from 0)
SessionIdOf(urlFragment) == Split(Split(urlFragment, "session_id=")[2], "&")[1]

\* encodeURIComponent on one character
EncodeChar(c) ==
  IF c = ":" THEN <<"%", "3", "A">>
  ELSE IF c = "/" THEN <<"%", "2", "F">>
  ELSE IF c = "?" THEN <<"%", "3", "F">>
  ELSE IF c = "=" THEN <<"%", "3", "D">>
  ELSE IF c = "&" THEN <<"%", "2", "6">>
  ELSE IF c = "#" THEN <<"%", "2", "3">>
  ELSE <<c>>

RECURSIVE EncodeURIComponent(_)
EncodeURIComponent(s) ==
  IF s = <<>> THEN <<>>
  ELSE EncodeChar(Head(s)) \o EncodeURIComponent(Tail(s))

\* login: the URL assigned to window.location.href
LoginUrlRaw(origin) == AuthBase \o (origin \o DashboardSuffix)

LoginUrl(origin) == AuthBase \o EncodeURIComponent(origin \o DashboardSuffix)


\* ------------------------------------------------------------------- state
VARIABLES
  version,        \* which App component is deployed
  pathname,       \* window.location.pathname
  hash,           \* window.location.hash
  href,           \* the URL assigned to window.location.href (NoNav: none)
  user,           \* AuthProvider state
  loading,
  processingAuth,
  currentPage,    \* App state (routed version)
  view,           \* what App returned at the last commit ("none": not mounted)
  rendered,       \* the state the last commit was rendered from
  dirty,          \* a state update is waiting for a commit
  authReqs,       \* the auth requests in flight, one per processAuth invocation
  loginCalls,     \* invocations of login
  pushes,         \* calls of history.pushState
  pendingLogout,  \* logout invocations awaiting their request
  dashMounted,    \* a Dashboard instance is mounted
  dashShown,      \* the Dashboard shows its content (not its spinner)
  dashUser,       \* the user the Dashboard's closures hold
  activeTab,      \* Dashboard state
  dashLoading,
  data,           \* analytics, bots, trades, portfolio, marketData, users
  runs,           \* the fetchData invocations of this page load
  pendingMut,     \* createBot / toggleBot invocations awaiting their request
  showAuthForm,   \* LandingPage state (routed version)
  isSignup,       \* AuthForm state (routed version)
  formData,
  unhandled,      \* operations whose promise rejected with nobody catching it
  lastOutcome,    \* the outcome handled by the last step ("none": no response)
  lastBody        \* the user record the last step read from a body (Null: none)

vars == <<version, pathname, hash, href, user, loading, processingAuth,
          currentPage, view, rendered, dirty, authReqs,
          loginCalls, pushes, pendingLogout, dashMounted,
          dashShown, dashUser, activeTab, dashLoading, data, runs, pendingMut,
          showAuthForm, isSignup, formData, unhandled, lastOutcome, lastBody>>

\* the read requests of fetchData, in program order
ReadOrder ==
  << "/api/analytics/overview", "/api/bots", "/api/trades", "/api/portfolio",
     "/api/market/stocks", "/api/admin/users" >>

Endpoints == {ReadOrder[i] : i \in 1..Len(ReadOrder)}

MutKinds == {"createBot", "toggleBot"}

\* what a request can come back as: an OK response with a body that parses,
\* an OK response whose body does not parse, a non-OK response, a rejected fetch
Outcomes == {"ok", "badjson", "nonok", "neterr"}

\* the bodies a read request can be answered with (opaque, none of them
\* equal to the useState initial value below)
Bodies == {1}

\* the useState initial values of Dashboard (0 stands for null / [] / {})
DataDefault == [e \in Endpoints |-> 0]

Snapshot ==
  [user |-> user, loading |-> loading, processingAuth |-> processingAuth,
   currentPage |-> currentPage]

Unloading == href # NoNav

InitWith(fragments) ==
  /\ version \in Versions
  /\ pathname \in Paths
  /\ hash \in fragments
  /\ href = NoNav
  /\ user = Null
  /\ loading = TRUE
  /\ processingAuth = FALSE
  /\ currentPage = "home"
  /\ view = "none"
  /\ rendered = Snapshot
  /\ dirty = TRUE
  /\ authReqs = <<>>
  /\ loginCalls = 0
  /\ pushes = 0
  /\ pendingLogout = 0
  /\ dashMounted = FALSE
  /\ dashShown = FALSE
  /\ dashUser = Null
  /\ activeTab = "overview"
  /\ dashLoading = TRUE
  /\ data = DataDefault
  /\ runs = <<>>
  /\ pendingMut = [k \in MutKinds |-> 0]
  /\ showAuthForm = FALSE
  /\ isSignup = FALSE
  /\ formData = FormDefault
  /\ unhandled = {}
  /\ lastOutcome = "none"
  /\ lastBody = Null

Init == InitWith(Fragments)


\* ------------------------------------------------------------ App (render)
\* simple App: const isOnDashboard = pathname === '/dashboard' || user
IsOnDashboard(path, u) == path = "/dashboard" \/ u # Null

\* simple App: the element returned, and whether the render assigned
\* window.location.href = '/dashboard'
AppSimple(u, l, p, path) ==
  IF l \/ p THEN [view |-> "LoadingSpinner", redirect |-> FALSE]
  ELSE IF u # Null /\ ~IsOnDashboard(path, u)
    THEN [view |-> "LoadingSpinner", redirect |-> TRUE]
  ELSE [view |-> IF u # Null THEN "Dashboard" ELSE "LandingPage",
        redirect |-> FALSE]

\* routed App: renderPage, with the user check dropped
renderPageNoUserCheck(u, page) ==
  CASE page = "dashboard" -> "Dashboard"
    [] page = "auth" -> "AuthForm"
    [] OTHER -> "LandingPage"

\* routed App: renderPage
renderPage(u, page) ==
  IF u # Null THEN "Dashboard"
  ELSE CASE page = "dashboard" -> (IF u # Null THEN "Dashboard" ELSE "LandingPage")
         [] page = "auth" -> "AuthForm"
         [] OTHER -> "LandingPage"

\* routed App without its spinner
AppRoutedNoSpinner(u, l, p, page) == renderPage(u, page)

\* routed App: the spinner while loading or processingAuth, else renderPage
AppRouted(u, l, p, page) ==
  IF l \/ p THEN "LoadingSpinner" ELSE renderPage(u, page)

\* routed App, first effect, knowing '/login' only
RoutingEffectLoginOnly(path, u) ==
  IF path = "/dashboard" \/ (u # Null /\ path = "/") THEN "dashboard"
  ELSE IF path = "/login" THEN "auth"
  ELSE "home"

\* routed App, first effect (deps [user]): the page for the URL path
RoutingEffect(path, u) ==
  IF path = "/dashboard" \/ (u # Null /\ path = "/") THEN "dashboard"
  ELSE IF path = "/login" \/ path = "/signup" THEN "auth"
  ELSE "home"

\* routed App, second effect (deps [user, currentPage]) with a wrong test
RedirectEffectOnlyFromHome(u, page) == u # Null /\ page = "home"

\* routed App, second effect redirecting whatever the current page is
RedirectEffectAnyPage(u, page) == u # Null

\* routed App, second effect (deps [user, currentPage]): whether it redirects
RedirectEffect(u, page) == u # Null /\ page # "dashboard"

\* POST /api/auth/session with its X-Session-ID header, and GET /api/auth/me
SessionRequest(sessionId) == [kind |-> "session", header |-> sessionId]
MeRequest == [kind |-> "me", header |-> <<>>]

\* a sequence without its i-th element
RemoveAt(q, i) == SubSeq(q, 1, i - 1) \o SubSeq(q, i + 1, Len(q))

\* processAuth without the else: the cookie probe follows the exchange
ProcessAuthRequestsNoElse(urlFragment) ==
  IF Includes(urlFragment, "session_id=") THEN {"session", "me"} ELSE {"me"}

\* processAuth: the request it issues for the fragment it reads
ProcessAuthRequests(urlFragment) ==
  IF Includes(urlFragment, "session_id=") THEN {"session"} ELSE {"me"}

\* AuthProvider effect with the auth state among its dependencies
AuthEffectDepsWithState(s) == <<"BACKEND_URL", s.loading>>

\* the dependency array of the AuthProvider effect, for the rendered state s
AuthEffectDeps(s) == <<"BACKEND_URL">>

\* Dashboard with the same tabs for every role
TabsForClient(role) == <<"overview", "bots", "trades", "portfolio">>

\* Dashboard with the admin's tabs for every role
TabsForAdmin(role) == <<"overview", "users", "bots", "analytics">>

\* Dashboard: the tab set of a role
Tabs(role) ==
  IF role = "admin" THEN <<"overview", "users", "bots", "analytics">>
  ELSE <<"overview", "bots", "trades", "portfolio">>

TabSet(role) == {Tabs(role)[i] : i \in 1..Len(Tabs(role))}

\* Dashboard: the panel rendered below the tab buttons ("none": no panel)
TabContent(tab, role, portfolio) ==
  IF tab = "overview" THEN "overview"
  ELSE IF tab = "users" /\ role = "admin" THEN "users"
  ELSE IF tab = "bots" THEN "bots"
  ELSE IF tab = "trades" THEN "trades"
  ELSE IF tab = "portfolio" /\ portfolio # 0 THEN "portfolio"
  ELSE IF tab = "analytics" /\ role = "admin" THEN "analytics"
  ELSE "none"

\* ------------------------------------------------------------- exceptions
\* where an outcome makes the awaiting code throw ("none": it does not)
ThrowSite(outcome) ==
  IF outcome = "neterr" THEN "fetch"
  ELSE IF outcome = "badjson" THEN "json"
  ELSE "none"

\* try blocks that leave response.json() outside
TryBlockFetchOnly(op) == {"fetch"}

\* the awaits that lie inside the try block of each async operation
TryBlock(op) ==
  IF op \in {"processAuth", "fetchData"} THEN {"fetch", "json"} ELSE {"fetch"}

Caught(op, outcome) == ThrowSite(outcome) \in TryBlock(op)

\* ---------------------------------------------------------------- fetchData
\* fetchData storing the body of any response that parses
StoresAnyResponse(outcome) == outcome \in {"ok", "nonok"}

\* fetchData: if (res.ok) set...(await res.json())
Stores(outcome) == outcome = "ok"

\* fetchData with setLoading(false) as the last statement of the try block
ClearsLoadingAtEndOfTry(throws) == ~throws

\* fetchData: finally { setLoading(false) }, whether or not the try block threw
ClearsLoading(throws) == TRUE

\* a fetchData invocation that has issued its first request
NewRun(u) ==
  [user |-> u, pc |-> 1,
   issued |-> [e \in Endpoints |-> IF e = ReadOrder[1] THEN 1 ELSE 0]]

\* a fetchData invocation that has returned (its locals are gone)
DoneRun == [user |-> Null, pc |-> 0, issued |-> [e \in Endpoints |-> 0]]

\* fetchData asking for the portfolio before the trades are in
NextReadPortfolioFirst(pc, u) ==
  IF pc = 2 THEN 4
  ELSE IF pc = 4 THEN 3
  ELSE IF pc = 3 THEN 5
  ELSE IF pc = 1 THEN 2
  ELSE IF pc = 5 /\ Role(u) = "admin" THEN 6
  ELSE 0

\* fetchData asking again for what it has just been answered
NextReadAgain(pc, u) == pc

\* the request after the one at position pc (0: none, the run is over)
NextRead(pc, u) ==
  IF pc < 5 THEN pc + 1
  ELSE IF pc = 5 /\ Role(u) = "admin" THEN 6
  ELSE 0


\* ----------------------------------------------------------------- actions
Bump(f, k) == [f EXCEPT ![k] = @ + 1]
Drop(f, k) == [f EXCEPT ![k] = @ - 1]

\* One React commit: App is rendered from the current state, the Dashboard is
\* mounted or unmounted, and the effects whose dependencies changed run
\* (Dashboard's mount effect, App's two effects, AuthProvider's effect).
Render ==
  /\ dirty
  /\ ~Unloading
  /\ LET first == view = "none"
         simple == AppSimple(user, loading, processingAuth, pathname)
         out == IF version = "simple" THEN simple.view
                ELSE AppRouted(user, loading, processingAuth, currentPage)
         mount == out = "Dashboard" /\ ~dashMounted
         unmount == out # "Dashboard" /\ dashMounted
         \* App effects (routed version)
         runRouting == version = "routed" /\ (first \/ rendered.user # user)
         runRedirect == version = "routed"
                          /\ (first \/ rendered.user # user
                                    \/ rendered.currentPage # currentPage)
         page1 == IF runRouting THEN RoutingEffect(pathname, user)
                  ELSE currentPage
         redirect == runRedirect /\ RedirectEffect(user, currentPage)
         \* AuthProvider effect
         runAuth == first \/ AuthEffectDeps(rendered) # AuthEffectDeps(Snapshot)
         exchange == runAuth /\ "session" \in ProcessAuthRequests(hash)
         probe == runAuth /\ "me" \in ProcessAuthRequests(hash)
     IN
     /\ view' = out
     /\ rendered' = Snapshot
     \* LandingPage: its state lives as long as it stays mounted
     /\ showAuthForm' = (out = "LandingPage" /\ view = "LandingPage" /\ showAuthForm)
     \* AuthForm: its state lives as long as it stays mounted
     /\ LET stays == (out = "AuthForm" /\ view = "AuthForm") \/ showAuthForm' IN
        /\ isSignup' = (stays /\ isSignup)
        /\ formData' = IF stays THEN formData ELSE FormDefault
     /\ href' = IF version = "simple" /\ simple.redirect
                THEN DashboardSuffix ELSE href
     \* Dashboard
     /\ dashMounted' = (out = "Dashboard")
     /\ dashShown' = (out = "Dashboard" /\ dashMounted /\ ~dashLoading)
     /\ dashUser' = IF out = "Dashboard" THEN user ELSE dashUser
     /\ activeTab' = IF unmount THEN "overview" ELSE activeTab
     /\ dashLoading' = IF unmount THEN TRUE ELSE dashLoading
     /\ data' = IF unmount THEN DataDefault ELSE data
     /\ runs' = IF mount /\ Len(runs) < MaxRuns
                THEN Append(runs, NewRun(user)) ELSE runs
     \* App effects
     /\ currentPage' = IF redirect THEN "dashboard" ELSE page1
     /\ pathname' = IF redirect THEN "/dashboard" ELSE pathname
     /\ hash' = IF redirect THEN <<>> ELSE hash
     /\ pushes' = IF redirect THEN pushes + 1 ELSE pushes
     \* AuthProvider effect: processAuth up to its first await
     /\ processingAuth' = IF exchange THEN TRUE ELSE processingAuth
     /\ authReqs' = authReqs
                       \o (IF exchange THEN <<SessionRequest(SessionIdOf(hash))>>
                           ELSE <<>>)
                       \o (IF probe THEN <<MeRequest>> ELSE <<>>)
     /\ dirty' = (currentPage' # currentPage \/ processingAuth' # processingAuth)
  /\ lastOutcome' = "none"
  /\ lastBody' = Null
  /\ UNCHANGED <<version, user, loading, loginCalls, pendingLogout,
                 pendingMut, unhandled>>

\* processAuth cleaning the URL after the if
ClearsFragmentAlways(outcome) == TRUE

\* processAuth, token branch: window.location.hash = '' and replaceState with
\* the pathname, inside if (response.ok) after the body has been parsed
ClearsFragment(outcome) == outcome = "ok"

\* processAuth, token branch: the response to POST /api/auth/session arrives
\* and the function runs to its end.  u is the user field of the body.
SessionResponse(i, outcome, u) ==
  /\ ~dirty
  /\ ~Unloading
  /\ i \in 1..Len(authReqs)
  /\ authReqs[i].kind = "session"
  /\ authReqs' = RemoveAt(authReqs, i)
  /\ IF ThrowSite(outcome) # "none" /\ ~Caught("processAuth", outcome)
     THEN /\ unhandled' = unhandled \cup {"processAuth"}
          /\ UNCHANGED <<user, loading, processingAuth, hash>>
     ELSE /\ user' = IF outcome = "ok" THEN u ELSE user
          /\ hash' = IF ClearsFragment(outcome) THEN <<>> ELSE hash
          /\ processingAuth' = FALSE
          /\ loading' = FALSE
          /\ UNCHANGED unhandled
  /\ dirty' = (<<user', loading', processingAuth'>> # <<user, loading, processingAuth>>)
  /\ lastOutcome' = outcome
  /\ lastBody' = IF outcome = "ok" THEN u ELSE Null
  /\ UNCHANGED <<isSignup, formData,
                 showAuthForm, version, pathname, href, currentPage, view, rendered,
                 loginCalls, pushes, pendingLogout, dashMounted, dashShown,
                 dashUser, activeTab, dashLoading, data, runs, pendingMut>>

\* processAuth, cookie branch: the response to GET /api/auth/me arrives.
\* u is the body.
MeResponse(i, outcome, u) ==
  /\ ~dirty
  /\ ~Unloading
  /\ i \in 1..Len(authReqs)
  /\ authReqs[i].kind = "me"
  /\ authReqs' = RemoveAt(authReqs, i)
  /\ IF ThrowSite(outcome) # "none" /\ ~Caught("processAuth", outcome)
     THEN /\ unhandled' = unhandled \cup {"processAuth"}
          /\ UNCHANGED <<user, loading>>
     ELSE /\ user' = IF outcome = "ok" THEN u ELSE user
          /\ loading' = FALSE
          /\ UNCHANGED unhandled
  /\ dirty' = (<<user', loading'>> # <<user, loading>>)
  /\ lastOutcome' = outcome
  /\ lastBody' = IF outcome = "ok" THEN u ELSE Null
  /\ UNCHANGED <<isSignup, formData,
                 showAuthForm, version, pathname, hash, href, processingAuth, currentPage,
                 view, rendered, loginCalls, pushes, pendingLogout,
                 dashMounted, dashShown, dashUser, activeTab, dashLoading,
                 data, runs, pendingMut>>

\* login, from the buttons of LandingPage and the submit of AuthForm
Login ==
  /\ ~dirty
  /\ ~Unloading
  /\ view \in {"LandingPage", "AuthForm"}
  /\ href' = LoginUrl(Origin)
  /\ loginCalls' = loginCalls + 1
  /\ lastOutcome' = "none"
  /\ lastBody' = Null
  /\ UNCHANGED <<isSignup, formData,
                 showAuthForm, version, pathname, hash, user, loading, processingAuth,
                 currentPage, view, rendered, dirty, authReqs, pushes,
                 pendingLogout, dashMounted, dashShown, dashUser, activeTab,
                 dashLoading, data, runs, pendingMut, unhandled>>

\* routed version: what the element App returned displays; the LandingPage
\* returns the AuthForm while its showAuthForm is set
Displayed ==
  IF view = "LandingPage" /\ showAuthForm THEN "AuthForm" ELSE view

\* routed version: the JOIN / GET STARTED / START TRADING buttons of the
\* LandingPage
ShowAuthForm ==
  /\ ~dirty
  /\ ~Unloading
  /\ version = "routed"
  /\ Displayed = "LandingPage"
  /\ showAuthForm' = TRUE
  /\ lastOutcome' = "none"
  /\ lastBody' = Null
  /\ UNCHANGED <<isSignup, formData,
                 version, pathname, hash, href, user, loading,
                 processingAuth, currentPage, view, rendered, dirty,
                 authReqs, loginCalls, pushes, pendingLogout, dashMounted,
                 dashShown, dashUser, activeTab, dashLoading, data, runs,
                 pendingMut, unhandled>>

\* routed version: the Back to Home button of the AuthForm
BackToHome ==
  /\ ~dirty
  /\ ~Unloading
  /\ version = "routed"
  /\ Displayed = "AuthForm"
  /\ href' = HomeUrl
  /\ lastOutcome' = "none"
  /\ lastBody' = Null
  /\ UNCHANGED <<isSignup, formData,
                 showAuthForm, version, pathname, hash, user, loading,
                 processingAuth, currentPage, view, rendered, dirty,
                 authReqs, loginCalls, pushes, pendingLogout, dashMounted,
                 dashShown, dashUser, activeTab, dashLoading, data, runs,
                 pendingMut, unhandled>>

\* AuthForm: the button under the form, setIsSignup(!isSignup)
SetIsSignup ==
  /\ ~dirty
  /\ ~Unloading
  /\ version = "routed"
  /\ Displayed = "AuthForm"
  /\ isSignup' = ~isSignup
  /\ dirty' = TRUE
  /\ lastOutcome' = "none"
  /\ lastBody' = Null
  /\ UNCHANGED <<formData, showAuthForm, version, pathname, hash, href, user,
                 loading, processingAuth, currentPage, view, rendered,
                 authReqs, loginCalls, pushes, pendingLogout, dashMounted,
                 dashShown, dashUser, activeTab, dashLoading, data, runs,
                 pendingMut, unhandled>>

\* AuthForm: the inputs it renders (name and confirmPassword when signing up)
InputsShown(signup) ==
  IF signup THEN Fields ELSE {"email", "password"}

\* AuthForm.handleInputChange, for the input called name
handleInputChange(name, value) ==
  /\ ~dirty
  /\ ~Unloading
  /\ version = "routed"
  /\ Displayed = "AuthForm"
  /\ name \in InputsShown(isSignup)
  /\ value # formData[name]
  /\ formData' = [formData EXCEPT ![name] = value]
  /\ dirty' = TRUE
  /\ lastOutcome' = "none"
  /\ lastBody' = Null
  /\ UNCHANGED <<isSignup, showAuthForm, version, pathname, hash, href, user,
                 loading, processingAuth, currentPage, view, rendered,
                 authReqs, loginCalls, pushes, pendingLogout, dashMounted,
                 dashShown, dashUser, activeTab, dashLoading, data, runs,
                 pendingMut, unhandled>>

\* AuthForm.handleSubmit doing the sign-in itself: it posts the entered
\* values and does not call login
handleSubmitTraditional(signup, form) ==
  [requests |-> <<[kind |-> IF signup THEN "signup" ELSE "signin",
                   header |-> <<form["email"], form["password"]>>]>>,
   login |-> FALSE]

\* AuthForm.handleSubmit: e.preventDefault() keeps the browser from sending
\* the form; the requests the handler issues, and whether it calls login
handleSubmit(signup, form) == [requests |-> <<>>, login |-> TRUE]

\* the submit of the AuthForm; every input shown is required
SubmitAuthForm ==
  /\ ~dirty
  /\ ~Unloading
  /\ version = "routed"
  /\ Displayed = "AuthForm"
  /\ \A f \in InputsShown(isSignup) : formData[f] # ""
  /\ LET h == handleSubmit(isSignup, formData) IN
       /\ authReqs' = authReqs \o h.requests
       /\ href' = IF h.login THEN LoginUrl(Origin) ELSE href
       /\ loginCalls' = IF h.login THEN loginCalls + 1 ELSE loginCalls
  /\ lastOutcome' = "none"
  /\ lastBody' = Null
  /\ UNCHANGED <<isSignup, formData, showAuthForm, version, pathname, hash,
                 user, loading, processingAuth, currentPage, view, rendered,
                 dirty, pushes, pendingLogout, dashMounted, dashShown,
                 dashUser, activeTab, dashLoading, data, runs, pendingMut,
                 unhandled>>

\* AuthProvider: isAuthenticated: !!user
IsAuthenticated(u) == u # Null

\* logout that only tells the backend
AfterLogoutKeepsUser(u, outcome) == u

\* logout that clears the user only after an OK response
AfterLogoutIfOk(u, outcome) == IF outcome = "ok" THEN Null ELSE u

\* logout: the user after the awaited fetch; setUser(null) follows the await
\* inside the try block, whatever the status of the response
AfterLogout(u, outcome) == IF ThrowSite(outcome) = "fetch" THEN u ELSE Null

\* logout, from the DISCONNECT button of the Dashboard: up to its await
Logout ==
  /\ ~dirty
  /\ ~Unloading
  /\ dashShown
  /\ pendingLogout < MaxLogouts
  /\ pendingLogout' = pendingLogout + 1
  /\ lastOutcome' = "none"
  /\ lastBody' = Null
  /\ UNCHANGED <<isSignup, formData,
                 showAuthForm, version, pathname, hash, href, user, loading,
                 processingAuth, currentPage, view, rendered, dirty,
                 authReqs, loginCalls, pushes, dashMounted, dashShown,
                 dashUser, activeTab, dashLoading, data, runs, pendingMut,
                 unhandled>>

\* logout: the response to POST /api/auth/logout arrives
LogoutResponse(outcome) ==
  /\ ~dirty
  /\ ~Unloading
  /\ pendingLogout > 0
  /\ pendingLogout' = pendingLogout - 1
  /\ IF ThrowSite(outcome) # "none" /\ ~Caught("logout", outcome)
     THEN /\ unhandled' = unhandled \cup {"logout"}
          /\ UNCHANGED user
     ELSE /\ user' = AfterLogout(user, outcome)
          /\ UNCHANGED unhandled
  /\ dirty' = (user' # user)
  /\ lastOutcome' = outcome
  /\ lastBody' = Null
  /\ UNCHANGED <<isSignup, formData,
                 showAuthForm, version, pathname, hash, href, loading, processingAuth,
                 currentPage, view, rendered, authReqs, loginCalls, pushes,
                 dashMounted, dashShown, dashUser, activeTab, dashLoading,
                 data, runs, pendingMut>>


\* fetchData, invocation r: the response to the request it awaits arrives and
\* the function runs to its next await or to its end.  The body of an OK
\* response that parses is stored; a throw goes to catch and finally;
\* setState on an unmounted Dashboard does nothing.
RunResponse(r, outcome, body) ==
  /\ ~dirty
  /\ ~Unloading
  /\ r \in 1..Len(runs)
  /\ runs[r].pc # 0
  /\ LET run == runs[r]
         e == ReadOrder[run.pc]
         throws == ThrowSite(outcome) # "none"
         next == IF throws THEN 0 ELSE NextRead(run.pc, run.user)
     IN
     /\ runs' = [runs EXCEPT ![r] =
                   IF next = 0 THEN DoneRun
                   ELSE [run EXCEPT !.pc = next,
                                    !.issued = Bump(@, ReadOrder[next])]]
     /\ data' = IF Stores(outcome) /\ dashMounted
                THEN [data EXCEPT ![e] = body] ELSE data
     /\ dashLoading' = IF next = 0 /\ dashMounted /\ ClearsLoading(throws)
                       THEN FALSE ELSE dashLoading
     /\ unhandled' = IF throws /\ ~Caught("fetchData", outcome)
                     THEN unhandled \cup {"fetchData"} ELSE unhandled
  /\ dirty' = (<<data', dashLoading'>> # <<data, dashLoading>>)
  /\ lastOutcome' = outcome
  /\ lastBody' = Null
  /\ UNCHANGED <<isSignup, formData,
                 showAuthForm, version, pathname, hash, href, user, loading,
                 processingAuth, currentPage, view, rendered, authReqs,
                 loginCalls, pushes, pendingLogout, dashMounted, dashShown,
                 dashUser, activeTab, pendingMut>>

\* a tab button of the Dashboard
SetActiveTab(tab) ==
  /\ ~dirty
  /\ ~Unloading
  /\ dashShown
  /\ tab \in TabSet(Role(user))
  /\ tab # activeTab
  /\ activeTab' = tab
  /\ dirty' = TRUE
  /\ lastOutcome' = "none"
  /\ lastBody' = Null
  /\ UNCHANGED <<isSignup, formData,
                 showAuthForm, version, pathname, hash, href, user, loading,
                 processingAuth, currentPage, view, rendered, authReqs,
                 loginCalls, pushes, pendingLogout, dashMounted, dashShown,
                 dashUser, dashLoading, data, runs, pendingMut, unhandled>>

\* every mutation that comes back OK starts a fetchData run; the clicks are
\* bounded so that the runs of one page load stay within MaxRuns
MayMutateWithin(limit) ==
  Len(runs) + pendingMut["createBot"] + pendingMut["toggleBot"] < limit

MayMutate == MayMutateWithin(MaxRuns)

\* createBot, from the form of the bots tab: up to its await
CreateBotWithin(limit) ==
  /\ ~dirty
  /\ ~Unloading
  /\ dashShown
  /\ activeTab = "bots"
  /\ MayMutateWithin(limit)
  /\ pendingMut' = Bump(pendingMut, "createBot")
  /\ lastOutcome' = "none"
  /\ lastBody' = Null
  /\ UNCHANGED <<isSignup, formData,
                 showAuthForm, version, pathname, hash, href, user, loading,
                 processingAuth, currentPage, view, rendered, dirty,
                 authReqs, loginCalls, pushes, pendingLogout, dashMounted,
                 dashShown, dashUser, activeTab, dashLoading, data, runs,
                 unhandled>>

CreateBot == CreateBotWithin(MaxRuns)

\* toggleBot, from the button of a listed bot: up to its await
ToggleBotWithin(limit) ==
  /\ ~dirty
  /\ ~Unloading
  /\ dashShown
  /\ activeTab = "bots"
  /\ data["/api/bots"] # 0
  /\ MayMutateWithin(limit)
  /\ pendingMut' = Bump(pendingMut, "toggleBot")
  /\ lastOutcome' = "none"
  /\ lastBody' = Null
  /\ UNCHANGED <<isSignup, formData,
                 showAuthForm, version, pathname, hash, href, user, loading,
                 processingAuth, currentPage, view, rendered, dirty,
                 authReqs, loginCalls, pushes, pendingLogout, dashMounted,
                 dashShown, dashUser, activeTab, dashLoading, data, runs,
                 unhandled>>

ToggleBot == ToggleBotWithin(MaxRuns)

\* a mutation that refreshes after any outcome
RefreshesAlways(outcome) == TRUE

\* createBot / toggleBot: if (response.ok) fetchData()
Refreshes(outcome) == outcome = "ok"

\* createBot / toggleBot: the response to the mutation request arrives; an OK
\* response calls fetchData (not awaited), which runs to its first await
MutResponse(kind, outcome) ==
  /\ ~dirty
  /\ ~Unloading
  /\ pendingMut[kind] > 0
  /\ pendingMut' = Drop(pendingMut, kind)
  /\ IF Refreshes(outcome)
     THEN /\ runs' = Append(runs, NewRun(dashUser))
          /\ dashLoading' = IF dashMounted THEN TRUE ELSE dashLoading
     ELSE UNCHANGED <<runs, dashLoading>>
  /\ unhandled' = IF ThrowSite(outcome) # "none" /\ ~Caught(kind, outcome)
                  THEN unhandled \cup {kind} ELSE unhandled
  /\ dirty' = (dashLoading' # dashLoading)
  /\ lastOutcome' = outcome
  /\ lastBody' = Null
  /\ UNCHANGED <<isSignup, formData,
                 showAuthForm, version, pathname, hash, href, user, loading,
                 processingAuth, currentPage, view, rendered, authReqs,
                 loginCalls, pushes, pendingLogout, dashMounted, dashShown,
                 dashUser, activeTab, data>>


\* ---------------------------------------------------------- specification
AuthOutcomes == Outcomes
MaxAuthReqs == 2
MutOutcomes == {"ok", "nonok", "neterr"}

\* one page load: session resolution, routing, login, logout and the
\* Dashboard's initial fetchData
NextLoad ==
  \/ Render
  \/ \E i \in 1..MaxAuthReqs, o \in AuthOutcomes, u \in Users \cup {Null} :
       SessionResponse(i, o, u)
  \/ \E i \in 1..MaxAuthReqs, o \in AuthOutcomes, u \in Users \cup {Null} :
       MeResponse(i, o, u)
  \/ Login
  \/ ShowAuthForm
  \/ BackToHome
  \/ Logout
  \/ \E o \in MutOutcomes : LogoutResponse(o)
  \/ \E r \in 1..MaxRuns, o \in Outcomes, b \in Bodies : RunResponse(r, o, b)

\* the same, with the Dashboard's tabs and bot mutations
Next ==
  \/ NextLoad
  \/ \E t \in TabSet("admin") \cup TabSet("client") : SetActiveTab(t)
  \/ CreateBot
  \/ ToggleBot
  \/ \E k \in MutKinds, o \in MutOutcomes : MutResponse(k, o)

\* a page load on the dashboard URL, with or without a handoff token
InitDash ==
  /\ Init
  /\ version = "routed"
  /\ pathname = "/dashboard"
  /\ hash \in {<<>>, <<"#", "session_id=", "a">>}

\* every URL the page can be loaded on; the user leaves the bots alone
SpecLoad == Init /\ [][NextLoad]_vars

\* the dashboard in use
Spec == InitDash /\ [][Next]_vars

\* React commits every render it has scheduled
FairSpecLoad == SpecLoad /\ WF_vars(Render)

\* the response to the request a fetchData run awaits
ReadResponse ==
  \E r \in 1..MaxRuns, o \in Outcomes, b \in Bodies : RunResponse(r, o, b)

\* an admin with a session cookie loads the dashboard URL and works on the
\* bots tab, or signs out
InitBots == InitDash /\ hash = <<>>

NextBots ==
  \/ Render
  \/ \E o \in AuthOutcomes : MeResponse(1, o, "admin-user")
  \/ Logout
  \/ \E o \in MutOutcomes : LogoutResponse(o)
  \/ ReadResponse
  \/ SetActiveTab("bots")
  \/ CreateBot
  \/ ToggleBot
  \/ \E k \in MutKinds, o \in MutOutcomes : MutResponse(k, o)

SpecBots == InitBots /\ [][NextBots]_vars

\* React commits every render it has scheduled, and every read request that
\* was issued eventually resolves or rejects
FairSpecBots == SpecBots /\ WF_vars(Render) /\ WF_vars(ReadResponse)

\* fetchData runs of one page load where two of them are to overlap
MaxOverlapRuns == 3

\* the response to the request a fetchData run awaits, its body marked with
\* the run whose request it answers
ReadResponseOfRun ==
  \E r \in 1..MaxOverlapRuns, o \in MutOutcomes : RunResponse(r, o, r)

\* an admin with a session cookie loads the dashboard URL and creates and
\* toggles bots without waiting for the answers
NextOverlap ==
  \/ Render
  \/ MeResponse(1, "ok", "admin-user")
  \/ ReadResponseOfRun
  \/ SetActiveTab("bots")
  \/ CreateBotWithin(MaxOverlapRuns)
  \/ ToggleBotWithin(MaxOverlapRuns)
  \/ \E k \in MutKinds, o \in MutOutcomes : MutResponse(k, o)

SpecOverlap == InitBots /\ [][NextOverlap]_vars

\* a load of the routed App on the dashboard URL, where the sign-in page
\* sends the browser back to, with any of the fragments above
InitParse ==
  /\ InitWith(ParseFragments)
  /\ version = "routed"
  /\ pathname = "/dashboard"

SpecParse == InitParse /\ [][NextLoad]_vars

\* the response to an auth request in flight
AuthResponse ==
  \E i \in 1..MaxAuthReqs, o \in AuthOutcomes, u \in Users \cup {Null} :
    SessionResponse(i, o, u) \/ MeResponse(i, o, u)

\* React commits every render it has scheduled, and every auth request that
\* was issued eventually resolves or rejects
FairSpecAuth == SpecLoad /\ WF_vars(Render) /\ WF_vars(AuthResponse)

\* ------------------------------------------------------------------ claims
Mounted == view # "none"
Resolved == Mounted /\ ~loading /\ ~processingAuth /\ authReqs = <<>>
HasToken(h) == Includes(h, "session_id=")
SessionsInFlight(q) == Cardinality({i \in 1..Len(q) : q[i].kind = "session"})
ProbesInFlight(q) == Cardinality({i \in 1..Len(q) : q[i].kind = "me"})

\* the token of each fragment of Fragments that carries one
TokenOfFragment(h) ==
  IF h = <<"#", "session_id=", "a">> THEN <<"a">>
  ELSE IF h = <<"#", "x", "&", "session_id=", "b", "&", "y">> THEN <<"b">>
  ELSE <<>>

\* C1: the commit that mounts AuthProvider issues exactly one auth request,
\* POST /api/auth/session with the fragment's token as X-Session-ID when the
\* fragment contains 'session_id=' and GET /api/auth/me otherwise, and no
\* later step of the page load, whatever the request came back as, issues
\* another auth request.
C1_OneAuthRequestPerMount ==
  [][ /\ (~Mounted /\ Mounted') =>
           authReqs' = IF HasToken(hash)
                       THEN <<[kind |-> "session", header |-> TokenOfFragment(hash)]>>
                       ELSE <<[kind |-> "me", header |-> <<>>]>>
      /\ Mounted => /\ SessionsInFlight(authReqs') <= SessionsInFlight(authReqs)
                    /\ ProbesInFlight(authReqs') <= ProbesInFlight(authReqs)
    ]_vars

\* C1 witness: the token exchange failed, the page was rendered again and no
\* further auth request is in flight.
C1_Witness ==
  /\ HasToken(hash)
  /\ Resolved
  /\ ~dirty
  /\ view = "LandingPage"
  /\ lastOutcome = "none"

\* C2: routed App: from every state in which the user is non-null the app
\* reaches a state where the Dashboard is rendered, currentPage is
\* 'dashboard' and the path is '/dashboard', whatever path the page was
\* loaded on.
C2_ResolvedUserReachesDashboard ==
  (version = "routed" /\ user # Null)
    ~> (view = "Dashboard" /\ currentPage = "dashboard" /\ pathname = "/dashboard")

\* C2 witness: the routed App pushed '/dashboard' for a resolved user and
\* shows the Dashboard.
C2_Witness ==
  /\ version = "routed"
  /\ user # Null
  /\ pushes = 1
  /\ view = "Dashboard"
  /\ currentPage = "dashboard"
  /\ pathname = "/dashboard"

\* C3 (as claimed): simple App: once the session has resolved to a user on a
\* path other than '/dashboard', the render assigns '/dashboard' to
\* window.location.href and shows the LoadingSpinner.
C3_SimpleAppRedirects ==
  (version = "simple" /\ Resolved /\ ~dirty /\ user # Null
     /\ pathname # "/dashboard")
    => (href = DashboardSuffix /\ view = "LoadingSpinner")

\* C4: in both versions, an up-to-date render shows the Dashboard only when
\* user is non-null and loading and processingAuth are false; with a null user
\* and resolution finished it shows the LandingPage or the AuthForm, on every
\* path and for every currentPage.
C4_DashboardOnlyForUser ==
  /\ (~dirty /\ view = "Dashboard") =>
       (user # Null /\ ~loading /\ ~processingAuth)
  /\ (~dirty /\ Mounted /\ user = Null /\ ~loading /\ ~processingAuth) =>
       view \in {"LandingPage", "AuthForm"}

\* C4 witness: routed App loaded on '/dashboard' without a session: the
\* current page is 'dashboard' and the LandingPage is shown.
C4_Witness ==
  /\ version = "routed"
  /\ pathname = "/dashboard"
  /\ currentPage = "dashboard"
  /\ user = Null
  /\ ~dirty
  /\ view = "LandingPage"

\* https://auth.emergentagent.com/?redirect= followed by the percent-encoded
\* Origin and '/dashboard', written out
ExpectedLoginUrl ==
  AuthBase \o
  <<"h", "t", "t", "p", "%", "3", "A", "%", "2", "F", "%", "2", "F", "z",
    "%", "3", "A", "3", "%", "2", "F", "d", "a", "s", "h", "b", "o", "a", "r", "d">>

\* C5: a step that invokes login assigns the external sign-in URL, with the
\* redirect parameter the URL-encoded origin + '/dashboard', to
\* window.location.href, issues no request and leaves user, loading and
\* processingAuth unchanged.
C5_LoginOnlyNavigates ==
  [][ loginCalls' # loginCalls =>
        /\ href' = ExpectedLoginUrl
        /\ UNCHANGED <<user, loading, processingAuth>>
        /\ UNCHANGED <<authReqs, pendingLogout, pendingMut, runs>>
    ]_vars

\* C5 witness: login was invoked from the AuthForm and the browser is leaving
\* for the sign-in page.
C5_Witness ==
  /\ loginCalls = 1
  /\ view = "AuthForm"
  /\ href = ExpectedLoginUrl

\* C6: POST /api/auth/session is issued only by the commit that mounts
\* AuthProvider and only once there: no later step issues it again, neither
\* after a failed exchange nor when user, loading or processingAuth change.
C6_TokenExchangedOnce ==
  [][ SessionsInFlight(authReqs') > SessionsInFlight(authReqs) =>
        (~Mounted /\ SessionsInFlight(authReqs') = 1)
    ]_vars

\* C6 witness: the exchange came back non-OK, the fragment still holds the
\* token, and the page rendered again without a new exchange.
C6_Witness ==
  /\ HasToken(hash)
  /\ user = Null
  /\ ~loading
  /\ ~dirty
  /\ Mounted
  /\ SessionsInFlight(authReqs) = 0
  /\ rendered.loading = FALSE

\* the requests a fetchData run of user u is meant to issue
Batch(u) ==
  {ReadOrder[i] : i \in 1..5}
    \cup (IF Role(u) = "admin" THEN {"/api/admin/users"} ELSE {})

\* the step returns from fetchData invocation r
Returns(r) == r \in 1..Len(runs) /\ runs[r].pc # 0 /\ runs'[r].pc = 0

\* the step handles the response that fetchData invocation r awaited
Handles(r) == r \in 1..Len(runs) /\ runs[r].pc # 0 /\ runs'[r] # runs[r]

\* a request that failed: a non-OK response or a network failure
Failed == {"nonok", "neterr"}

\* C7 (as claimed): a fetchData run that returns has issued no read request
\* more than once, and has issued GET /api/admin/users if and only if the
\* role of its user is 'admin'.
C7_AdminUsersIffAdmin ==
  [][ \A r \in 1..MaxRuns : Returns(r) =>
        /\ \A e \in Endpoints : runs[r].issued[e] <= 1
        /\ runs[r].issued["/api/admin/users"] = 1 <=> Role(runs[r].user) = "admin"
    ]_vars

\* C8 (as claimed): the requests of a run do not depend on one another: a
\* run returns only after every request of its batch has been issued,
\* whatever the other requests came back as, and the body of every OK
\* response is stored.
C8_RequestsIndependent ==
  [][ \A r \in 1..MaxRuns :
        /\ Returns(r) => \A e \in Batch(runs[r].user) : runs[r].issued[e] = 1
        /\ (Handles(r) /\ lastOutcome' = "ok" /\ dashMounted) =>
             data'[ReadOrder[runs[r].pc]] \in Bodies
    ]_vars

\* C9 (as claimed): whenever a read request fails, the data of its endpoint
\* is the empty/default value afterwards, on the initial load and on every
\* refresh.
C9_FailureFallsBackToDefault ==
  [][ \A r \in 1..MaxRuns :
        (Handles(r) /\ lastOutcome' \in Failed) =>
          data'[ReadOrder[runs[r].pc]] = 0
    ]_vars

\* C9 (amended): a read request that fails leaves analytics, bots, trades,
\* portfolio, marketData and users as they were; on the initial load (run 1)
\* the data of its endpoint is therefore still the empty/default value.
C9_FailureKeepsData ==
  [][ \A r \in 1..MaxRuns :
        (Handles(r) /\ lastOutcome' \in Failed) =>
          /\ data' = data
          /\ r = 1 => data'[ReadOrder[runs[r].pc]] = 0
    ]_vars

\* C9 witness: the bots request of a refresh came back non-OK and the bots
\* stored by the initial load are still there.
C9_Witness ==
  /\ Len(runs) = 2
  /\ runs[2].pc = 3
  /\ lastOutcome = "nonok"
  /\ dashMounted
  /\ data["/api/bots"] # 0

\* C10: no operation lets an error escape: whatever its request comes back
\* as (a rejected fetch and an unparsable body included), processAuth,
\* logout, fetchData, createBot and toggleBot return normally.
C10_NoErrorEscapes == unhandled = {}

\* C10 witness: the fetchData that a mutation started without awaiting it got
\* a body that does not parse, and returned.
C10_Witness ==
  /\ Len(runs) = 2
  /\ runs[2] = DoneRun
  /\ lastOutcome = "badjson"
  /\ unhandled = {}

\* C11: if every issued auth request eventually resolves or rejects, then
\* for every outcome and in both branches of processAuth loading and
\* processingAuth eventually are false and stay false, and App eventually
\* shows the LandingPage, the AuthForm or the Dashboard instead of its
\* LoadingSpinner.
C11_SessionResolutionCompletes ==
  /\ <>[](~loading /\ ~processingAuth)
  /\ <>(view \in {"LandingPage", "AuthForm", "Dashboard"})

\* C11 witness: the token exchange was rejected by the network and
\* processAuth has run to its end, under the spinner it is about to replace.
C11_Witness ==
  /\ HasToken(hash)
  /\ lastOutcome = "neterr"
  /\ authReqs = <<>>
  /\ ~loading
  /\ ~processingAuth
  /\ view = "LoadingSpinner"

\* the tab buttons the claim gives each role
ExpectedTabs(role) ==
  IF role = "admin" THEN {"overview", "users", "bots", "analytics"}
  ELSE {"overview", "bots", "trades", "portfolio"}

\* C12: the tab buttons of a shown Dashboard are, for role 'admin', exactly
\* overview, users, bots, analytics and, for any other role (a missing role
\* included), exactly overview, bots, trades, portfolio; a click on a tab
\* button makes one of these the active tab.
C12_TabsByRole ==
  [][ /\ dashShown' =>
           /\ TabSet(Role(dashUser')) = ExpectedTabs(Role(dashUser'))
           /\ Len(Tabs(Role(dashUser'))) = 4
      /\ (dashShown /\ dashMounted' /\ activeTab' # activeTab) =>
           activeTab' \in ExpectedTabs(Role(dashUser))
    ]_vars

\* C12 witness: a user without a role has clicked the trades tab.
C12_Witness ==
  /\ dashShown
  /\ Role(dashUser) = "undefined"
  /\ activeTab = "trades"

\* the step handles the response to POST /api/auth/logout
LogoutCompletes == pendingLogout' < pendingLogout /\ lastOutcome' \in {"ok", "nonok"}

\* C13: when POST /api/auth/logout of a logout invoked from the Dashboard
\* completes, user is null and isAuthenticated is false, and from then on
\* the app reaches a state where the LandingPage is rendered and the
\* Dashboard is gone, in both versions of App.
C13_LogoutClearsSession ==
  /\ [][ LogoutCompletes => (user' = Null /\ ~IsAuthenticated(user')) ]_vars
  /\ (user = Null /\ dashMounted)
       ~> (user = Null /\ view = "LandingPage" /\ ~dashMounted)

\* C13 witness: the simple App shows the LandingPage after the logout
\* request came back non-OK, on a path where it had shown the Dashboard.
C13_Witness ==
  /\ version = "simple"
  /\ loginCalls = 0
  /\ Len(runs) > 0
  /\ user = Null
  /\ ~dirty
  /\ view = "LandingPage"
  /\ ~dashMounted

\* the step handles the response to a createBot or toggleBot request
MutHandled == \E k \in MutKinds : pendingMut'[k] < pendingMut[k]

\* C14: there is no retry.  No fetchData run has issued a read request more
\* than once; a step that handles a failed read request issues it no second
\* time and starts no run; a step that handles a failed mutation request
\* issues no request at all; and a mutation request is issued only by a step
\* of the user (a createBot or toggleBot call), one request per call.
C14_NoRetry ==
  [][ /\ \A r \in 1..Len(runs) : \A e \in Endpoints : runs[r].issued[e] <= 1
      /\ \A r \in 1..Len(runs) :
           (Handles(r) /\ lastOutcome' \in Failed) =>
             /\ runs'[r].issued[ReadOrder[runs[r].pc]] <= 1
             /\ Len(runs') = Len(runs)
             /\ pendingMut' = pendingMut
      /\ (MutHandled /\ lastOutcome' \in Failed) =>
           /\ runs' = runs
           /\ \A k \in MutKinds : pendingMut'[k] <= pendingMut[k]
      /\ \A k \in MutKinds :
           pendingMut'[k] > pendingMut[k] =>
             /\ pendingMut' = Bump(pendingMut, k)
             /\ lastOutcome' = "none"
             /\ runs' = runs
    ]_vars

\* C14 witness: a mutation request was rejected by the network; no request
\* is in flight afterwards.
C14_Witness ==
  /\ lastOutcome = "neterr"
  /\ activeTab = "bots"
  /\ Len(runs) = 1
  /\ runs[1] = DoneRun
  /\ pendingMut = [k \in MutKinds |-> 0]

\* the element the claim gives each path when there is no user
ViewForPath(path) ==
  IF path \in {"/login", "/signup"} THEN "AuthForm" ELSE "LandingPage"

\* C15: routed App: while no user has been resolved the path stays the one
\* the page was loaded on, and once session resolution has finished with a
\* null user and the page is rendered, the element App returns is the
\* AuthForm on '/login' and '/signup' and the LandingPage on every other
\* path, '/' and '/dashboard' included.
C15_NullUserViewByPath ==
  [][ /\ (version = "routed" /\ user' = Null /\ Resolved' /\ ~dirty') =>
           view' = ViewForPath(pathname')
      /\ (user = Null /\ user' = Null) => pathname' = pathname
    ]_vars

\* C15 witness: the page was loaded on '/signup', the cookie probe found no
\* session, and the AuthForm is rendered.
C15_Witness ==
  /\ version = "routed"
  /\ pathname = "/signup"
  /\ ~HasToken(hash)
  /\ user = Null
  /\ Resolved
  /\ ~dirty
  /\ view = "AuthForm"

\* the step handles the response to POST /api/auth/session
SessionHandled == SessionsInFlight(authReqs') < SessionsInFlight(authReqs)

\* C16: token branch of processAuth: when the exchange comes back OK, user
\* is the user field of the response and the fragment is empty, on the same
\* path and without a new history entry; when it comes back non-OK or the
\* request fails, user is still null and the fragment is unchanged and still
\* contains the session_id.
C16_TokenExchangeOutcome ==
  [][ SessionHandled =>
        /\ lastOutcome' = "ok" =>
             /\ user' = lastBody'
             /\ hash' = <<>>
             /\ pathname' = pathname
             /\ pushes' = pushes
        /\ lastOutcome' \in Failed =>
             /\ user = Null
             /\ user' = Null
             /\ hash' = hash
             /\ HasToken(hash')
    ]_vars

\* C16 witness: the exchange came back OK with a client's record: the user
\* is set and the fragment is gone.
C16_Witness ==
  /\ lastOutcome = "ok"
  /\ lastBody = "client-user"
  /\ rendered.processingAuth
  /\ ~processingAuth
  /\ user = "client-user"
  /\ hash = <<>>

\* the step handles the outcome of POST /api/auth/logout
LogoutHandled == pendingLogout' < pendingLogout

\* C17: when the logout fetch resolves, with an OK or a non-OK response,
\* user is null afterwards; when it rejects, user, loading and
\* processingAuth are unchanged, no render is scheduled, and the Dashboard
\* of a user who is still signed in remains displayed.
C17_LogoutClearsIffResolved ==
  [][ LogoutHandled =>
        /\ lastOutcome' \in {"ok", "nonok"} => user' = Null
        /\ lastOutcome' = "neterr" =>
             /\ UNCHANGED <<user, loading, processingAuth>>
             /\ UNCHANGED <<view, dashMounted, dashShown, dirty>>
             /\ user # Null => (view' = "Dashboard" /\ dashShown')
    ]_vars

\* C17 witness: the logout request was rejected by the network and the
\* Dashboard is still shown to the same user.
C17_Witness ==
  /\ lastOutcome = "neterr"
  /\ pendingLogout = 0
  /\ user # Null
  /\ ~dirty
  /\ view = "Dashboard"
  /\ dashShown

\* the requests fetchData invocation run has issued so far
Issued(run) == {e \in Endpoints : run.issued[e] >= 1}

\* C18: within one fetchData run the requests are issued in the order
\* analytics, bots, trades, portfolio, market stocks, admin users: what a run
\* has issued is always a prefix of that order whose last request is the
\* only one in flight, and the next request is issued by the step that
\* handles the response to the previous one, after the body of an OK
\* response has been stored.
C18_StrictlySequential ==
  [][ \A r \in 1..Len(runs') :
        /\ runs'[r].pc # 0 =>
             Issued(runs'[r]) = {ReadOrder[i] : i \in 1..runs'[r].pc}
        /\ (r <= Len(runs) /\ runs[r].pc # 0 /\ runs'[r].pc # 0
              /\ runs'[r] # runs[r]) =>
             /\ runs'[r].pc = runs[r].pc + 1
             /\ Issued(runs'[r]) = Issued(runs[r]) \cup {ReadOrder[runs'[r].pc]}
             /\ lastOutcome' \in {"ok", "nonok"}
             /\ (lastOutcome' = "ok" /\ dashMounted) =>
                  data'[ReadOrder[runs[r].pc]] \in Bodies
    ]_vars

\* C18 witness: the run of an admin awaits admin users, its sixth request,
\* after the market stocks came back OK and were stored.
C18_Witness ==
  /\ Len(runs) >= 1
  /\ runs[1].pc = 6
  /\ lastOutcome = "ok"
  /\ dashMounted
  /\ data["/api/market/stocks"] # 0

\* a fetchData run is awaiting a response
RunInFlight == \E r \in 1..Len(runs) : runs[r].pc # 0

\* C19: if every issued request eventually resolves or rejects, then for
\* every combination of outcomes the fetchData runs in flight all return,
\* whether or not the Dashboard is still mounted; the step that returns sets
\* the loading of the mounted Dashboard to false; and a mounted Dashboard
\* that is loading eventually shows its content or is unmounted.
C19_FetchDataTerminates ==
  /\ [][ \A r \in 1..Len(runs) :
           (Returns(r) /\ dashMounted) => ~dashLoading' ]_vars
  /\ RunInFlight ~> ~RunInFlight
  /\ (dashMounted /\ dashLoading) ~> (dashShown \/ ~dashMounted)

\* C19 witness: the refresh run was cut short by a rejected fetch and the
\* Dashboard shows its content again.
C19_Witness ==
  /\ Len(runs) = 2
  /\ runs[2] = DoneRun
  /\ data["/api/trades"] = 0
  /\ dashShown
  /\ ~dashLoading
  /\ ~dirty

\* C20: when the request of createBot or toggleBot comes back OK, the step
\* starts exactly one fetchData run (for the user of the Dashboard, with its
\* first request issued) and touches no other run; when it comes back non-OK
\* or fails, no run is started and analytics, bots, trades, portfolio,
\* marketData, users, loading and activeTab are unchanged.
C20_RefreshOnlyAfterOk ==
  [][ MutHandled =>
        /\ lastOutcome' = "ok" =>
             /\ Len(runs') = Len(runs) + 1
             /\ SubSeq(runs', 1, Len(runs)) = runs
             /\ runs'[Len(runs')] = NewRun(dashUser)
        /\ lastOutcome' \in Failed =>
             /\ runs' = runs
             /\ UNCHANGED <<data, dashLoading, activeTab>>
    ]_vars

\* C20 witness: a mutation came back OK and its refresh run awaits its first
\* request, under the Dashboard's spinner state.
C20_Witness ==
  /\ lastOutcome = "ok"
  /\ activeTab = "bots"
  /\ Len(runs) = 2
  /\ runs[2] = NewRun(dashUser)
  /\ runs[1] = DoneRun
  /\ dashLoading
  /\ pendingMut = [k \in MutKinds |-> 0]

\* C21 (as claimed), for GET /api/analytics/overview, the request a run
\* issues when it starts, so that of two runs the later one has issued the
\* later request: when fetchData runs overlap, the response to the request of
\* a run is never stored over the response to the request of a later run.
C21_NewestResponseWins ==
  [][ \A r \in 1..Len(runs) :
        (Handles(r) /\ runs[r].pc = 1 /\ lastOutcome' = "ok" /\ dashMounted) =>
          data["/api/analytics/overview"] <= r
    ]_vars

\* C22 (as claimed): the loading of a mounted Dashboard is true in every
\* state in which a fetchData run is in flight, and a rendered Dashboard
\* does not show its content then, also when runs overlap.
C22_LoadingWhileInFlight ==
  (dashMounted /\ RunInFlight) =>
    (dashLoading /\ (~dirty => ~dashShown))

\* C23: while session resolution is in progress (loading or processingAuth
\* is true, or the auth request is in flight) App has rendered nothing but
\* the LoadingSpinner, no Dashboard is mounted, and no dashboard request
\* (read or mutation) has been issued.
C23_NothingBeforeAuthCompletes ==
  (loading \/ processingAuth \/ authReqs # <<>>) =>
    /\ view \in {"none", "LoadingSpinner"}
    /\ ~dashMounted
    /\ runs = <<>>
    /\ pendingMut = [k \in MutKinds |-> 0]

\* C23 witness: the page was loaded on '/dashboard' with a handoff token; the
\* exchange is in flight and the spinner is rendered.
C23_Witness ==
  /\ pathname = "/dashboard"
  /\ SessionsInFlight(authReqs) = 1
  /\ processingAuth
  /\ loading
  /\ ~dirty
  /\ view = "LoadingSpinner"
  /\ runs = <<>>

\* the part of s after the first occurrence of tok (s contains tok)
AfterFirst(s, tok) == SubSeq(s, IndexOf(s, tok, 1) + 1, Len(s))

\* the part of s before the first element that is in stops, all of s when
\* there is none
Before(s, stops) ==
  LET at == {i \in 1..Len(s) : s[i] \in stops} IN
  IF at = {} THEN s
  ELSE SubSeq(s, 1, (CHOOSE i \in at : \A j \in at : i <= j) - 1)

\* the step mounts AuthProvider on a fragment with a token
ExchangeIssued == ~Mounted /\ Mounted' /\ HasToken(hash)

\* C24 (as claimed): the X-Session-ID header of POST /api/auth/session is
\* the part of the fragment after the first 'session_id=' up to but
\* excluding the next '&', or to the end of the fragment when there is none,
\* for every fragment containing 'session_id='.
C24_HeaderUpToAmpersand ==
  [][ ExchangeIssued =>
        /\ Len(authReqs') = 1
        /\ authReqs'[1].kind = "session"
        /\ authReqs'[1].header = Before(AfterFirst(hash, "session_id="), {"&"})
    ]_vars

\* what processAuth sends: the part after the first 'session_id=' up to but
\* excluding the next '&' or the next 'session_id=', whichever comes first
\* (C24 holds for every fragment in which 'session_id=' does not occur again
\* before the next '&', an empty value and a later parameter included)
HeaderUpToAmpersandOrToken ==
  [][ ExchangeIssued =>
        /\ Len(authReqs') = 1
        /\ authReqs'[1].kind = "session"
        /\ authReqs'[1].header =
             Before(AfterFirst(hash, "session_id="), {"&", "session_id="})
    ]_vars

\* the panel the mounted Dashboard renders
PanelShown == TabContent(activeTab, Role(dashUser), data["/api/portfolio"])

\* the panels only an admin is to see
AdminPanels == {"users", "analytics"}

\* C25: the user-management and platform-analytics panels are rendered only
\* for a user whose role is 'admin'; the active tab of a mounted Dashboard is
\* always a tab of its user's role, so never 'users' or 'analytics' for
\* another role; it is 'overview' when the Dashboard mounts and changes only
\* by a click on a tab button of that role.
C25_AdminTabsForAdminOnly ==
  /\ [](dashMounted =>
          /\ dashUser # Null
          /\ (~dirty => dashUser = user)
          /\ activeTab \in ExpectedTabs(Role(dashUser))
          /\ (PanelShown \in AdminPanels => Role(dashUser) = "admin")
          /\ (Role(dashUser) # "admin" => activeTab \notin AdminPanels))
  /\ [][ /\ (~dashMounted /\ dashMounted') => activeTab' = "overview"
         /\ (dashMounted /\ dashMounted' /\ activeTab' # activeTab) =>
              /\ dashShown
              /\ dashUser' = dashUser
              /\ activeTab' \in ExpectedTabs(Role(dashUser))
              /\ UNCHANGED <<user, data, runs, authReqs, pendingMut>>
     ]_vars

\* C25 witness: an admin looks at the user-management panel.
C25_Witness ==
  /\ dashShown
  /\ ~dirty
  /\ Role(user) = "admin"
  /\ activeTab = "users"
  /\ PanelShown = "users"

\* the AuthForm in use: a page load of the routed App without a handoff
\* token, the buttons that lead to the form, and the form itself
InitForm == Init /\ version = "routed" /\ hash = <<>>

NextForm ==
  \/ Render
  \/ \E i \in 1..MaxAuthReqs, o \in AuthOutcomes, u \in Users \cup {Null} :
       MeResponse(i, o, u)
  \/ ShowAuthForm
  \/ BackToHome
  \/ SetIsSignup
  \/ \E name \in Fields, value \in Texts : handleInputChange(name, value)
  \/ SubmitAuthForm

SpecForm == InitForm /\ [][NextForm]_vars

\* C26: a submit of the AuthForm, in sign-in and in sign-up mode and
\* whatever was typed into name, email, password and confirmation, invokes
\* login and nothing else: the browser is sent to the sign-in URL, which
\* holds none of the entered values, and no request is issued.
C26_SubmitOnlyInvokesLogin ==
  [][ SubmitAuthForm =>
        /\ loginCalls' = loginCalls + 1
        /\ href' = ExpectedLoginUrl
        /\ \A f \in Fields : ~Includes(href', formData[f])
        /\ UNCHANGED <<authReqs, runs, pendingLogout, pendingMut, pushes>>
        /\ UNCHANGED <<user, isSignup, formData>>
    ]_vars

\* C26 witness: every field of the sign-up form was filled in, the form was
\* submitted, and the browser is leaving for the sign-in page.
C26_Witness ==
  /\ Displayed = "AuthForm"
  /\ isSignup
  /\ \A f \in Fields : formData[f] = "typed"
  /\ loginCalls = 1
  /\ href = ExpectedLoginUrl
  /\ authReqs = <<>>

\* the step calls window.history.pushState
PushesState == pushes' # pushes

\* C27: routed App: history.pushState is called with '/dashboard', once, by
\* the render that first sees the user changed from null to non-null, never
\* while user is null and never when currentPage is already 'dashboard';
\* and the renders the two routing effects cause come to an end: every
\* pending state update is followed by a render that leaves none pending.
C27_RoutingEffectsSettle ==
  /\ [][ PushesState =>
           /\ pushes' = pushes + 1
           /\ version = "routed"
           /\ user # Null
           /\ rendered.user = Null
           /\ currentPage # "dashboard"
           /\ pathname' = "/dashboard"
           /\ currentPage' = "dashboard"
           /\ rendered'.user = user
     ]_vars
  /\ (version = "routed" /\ dirty) ~> (~dirty \/ Unloading)

\* C27 witness: '/dashboard' was pushed once for the user, the user logged
\* out, the effects ran again for the null user, and nothing is pending.
C27_Witness ==
  /\ version = "routed"
  /\ pushes = 1
  /\ user = Null
  /\ rendered.user = Null
  /\ ~loading
  /\ ~dirty
  /\ currentPage = "dashboard"
  /\ view = "LandingPage"

====
